---------------------------- MODULE Spec2Model ----------------------------
(***************************************************************************)
(* A model of static_analyzer.py (src/unittest.py): the script that reads  *)
(* one Python source file, prints the report of checks 1 to 11 through a   *)
(* Logger that duplicates sys.stdout into a log file, and then shells out  *)
(* to pylint.                                                              *)
(*                                                                         *)
(* A file's content is a sequence of one-character strings.  The analysed  *)
(* files are concatenations of the source chunks of ChunkSrc; ast.parse    *)
(* is modelled on that sublanguage by the table ChunkParse, which records  *)
(* for each chunk what CPython 3.11's ast.parse returns for it (node       *)
(* types, identifiers, children in ast.iter_child_nodes order).            *)
(***************************************************************************)
EXTENDS Integers, Sequences, FiniteSets, TLC

\* The largest number of chunks in an analysed file.
MaxChunks == 2

\* The nesting depth of a syntax tree beyond which ast.parse raises
\* RecursionError ("maximum recursion depth exceeded during ast
\* construction"); CPython's limit scaled down to the size of the corpus.
ParserDepthLimit == 7

VARIABLES
  content,    \* the text analyze_file read from the file (line 23)
  pc,         \* the position of the script
  console,    \* what the terminal shows (stdout and stderr of the process and of its children)
  log,        \* what Logger.log, the timestamped result file, holds
  hashseed,   \* the string hash seed of the running interpreter process
  run,        \* which run of the script this is
  firstlog    \* the log file the previous run left

vars == <<content, pc, console, log, hashseed, run, firstlog>>

Node(t, nm, as, ln, ks) == [type |-> t, name |-> nm, args |-> as, lineno |-> ln, kids |-> ks]
Leaf(t) == Node(t, "", <<>>, 0, <<>>)

(***************************************************************************)
(* The corpus: source chunks, each a complete top-level statement.         *)
(***************************************************************************)
ChunkSrc ==
  << (* 'x = 1\n' *)
     <<"x", " ", "=", " ", "1", "\n">>,
     (* 'def f(n):\n    return f(n - 1)\n' *)
     <<"d", "e", "f", " ", "f", "(", "n", ")", ":", "\n", " ", " ", " ", " ", "r", "e", "t", "u", "r", "n", " ", "f", "(", "n", " ", "-", " ", "1", ")", "\n">>,
     (* 'def g(a, b):\n    pass\n' *)
     <<"d", "e", "f", " ", "g", "(", "a", ",", " ", "b", ")", ":", "\n", " ", " ", " ", " ", "p", "a", "s", "s", "\n">>,
     (* 'g()\n' *)
     <<"g", "(", ")", "\n">>,
     (* 'id = int(input())\n' *)
     <<"i", "d", " ", "=", " ", "i", "n", "t", "(", "i", "n", "p", "u", "t", "(", ")", ")", "\n">>,
     (* 'try:\n    y = 1 / 0\nexcept ValueError:\n    y = 0\n' *)
     <<"t", "r", "y", ":", "\n", " ", " ", " ", " ", "y", " ", "=", " ", "1", " ", "/", " ", "0", "\n", "e", "x", "c", "e", "p", "t", " ", "V", "a", "l", "u", "e", "E", "r", "r", "o", "r", ":", "\n", " ", " ", " ", " ", "y", " ", "=", " ", "0", "\n">>,
     (* 'def h():\n    try:\n        return input()\n    except:\n        pass\n' *)
     <<"d", "e", "f", " ", "h", "(", ")", ":", "\n", " ", " ", " ", " ", "t", "r", "y", ":", "\n", " ", " ", " ", " ", " ", " ", " ", " ", "r", "e", "t", "u", "r", "n", " ", "i", "n", "p", "u", "t", "(", ")", "\n", " ", " ", " ", " ", "e", "x", "c", "e", "p", "t", ":", "\n", " ", " ", " ", " ", " ", " ", " ", " ", "p", "a", "s", "s", "\n">>,
     (* 'q = 1 // 2 + 3 / 0\n' *)
     <<"q", " ", "=", " ", "1", " ", "/", "/", " ", "2", " ", "+", " ", "3", " ", "/", " ", "0", "\n">>,
     (* 'r = x / 0 # z\n' *)
     <<"r", " ", "=", " ", "x", " ", "/", " ", "0", " ", "#", " ", "z", "\n">>,
     (* 'p = (1/x+0)\n' *)
     <<"p", " ", "=", " ", "(", "1", "/", "x", "+", "0", ")", "\n">>,
     (* 'import os\n' *)
     <<"i", "m", "p", "o", "r", "t", " ", "o", "s", "\n">>,
     (* 'try:\n    y = 1 / 0\nexcept* E:\n    pass\n' *)
     <<"t", "r", "y", ":", "\n", " ", " ", " ", " ", "y", " ", "=", " ", "1", " ", "/", " ", "0", "\n", "e", "x", "c", "e", "p", "t", "*", " ", "E", ":", "\n", " ", " ", " ", " ", "p", "a", "s", "s", "\n">>,
     (* 'print x\n' *)
     <<"p", "r", "i", "n", "t", " ", "x", "\n">>,
     (* 'z = 1+1+1+1+1+1+1\n' *)
     <<"z", " ", "=", " ", "1", "+", "1", "+", "1", "+", "1", "+", "1", "+", "1", "+", "1", "\n">> >>

ChunkParse ==
  << (* 'x = 1\n' *)
     [err |-> "none", lineno |-> 0, offset |-> 0,
      body |-> <<Node("Assign", "", <<>>, 0, <<Node("Name", "x", <<>>, 0, <<Leaf("Store")>>), Leaf("Constant")>>)>>],
     (* 'def f(n):\n    return f(n - 1)\n' *)
     [err |-> "none", lineno |-> 0, offset |-> 0,
      body |-> <<Node("FunctionDef", "f", <<"n">>, 1, <<Node("arguments", "", <<>>, 0, <<Node("arg", "n", <<>>, 0, <<>>)>>), Node("Return", "", <<>>, 0, <<Node("Call", "", <<>>, 0, <<Node("Name", "f", <<>>, 0, <<Leaf("Load")>>), Node("BinOp", "", <<>>, 0, <<Node("Name", "n", <<>>, 0, <<Leaf("Load")>>), Leaf("Sub"), Leaf("Constant")>>)>>)>>)>>)>>],
     (* 'def g(a, b):\n    pass\n' *)
     [err |-> "none", lineno |-> 0, offset |-> 0,
      body |-> <<Node("FunctionDef", "g", <<"a", "b">>, 1, <<Node("arguments", "", <<>>, 0, <<Node("arg", "a", <<>>, 0, <<>>), Node("arg", "b", <<>>, 0, <<>>)>>), Leaf("Pass")>>)>>],
     (* 'g()\n' *)
     [err |-> "none", lineno |-> 0, offset |-> 0,
      body |-> <<Node("Expr", "", <<>>, 0, <<Node("Call", "", <<>>, 0, <<Node("Name", "g", <<>>, 0, <<Leaf("Load")>>)>>)>>)>>],
     (* 'id = int(input())\n' *)
     [err |-> "none", lineno |-> 0, offset |-> 0,
      body |-> <<Node("Assign", "", <<>>, 0, <<Node("Name", "id", <<>>, 0, <<Leaf("Store")>>), Node("Call", "", <<>>, 0, <<Node("Name", "int", <<>>, 0, <<Leaf("Load")>>), Node("Call", "", <<>>, 0, <<Node("Name", "input", <<>>, 0, <<Leaf("Load")>>)>>)>>)>>)>>],
     (* 'try:\n    y = 1 / 0\nexcept ValueError:\n    y = 0\n' *)
     [err |-> "none", lineno |-> 0, offset |-> 0,
      body |-> <<Node("Try", "", <<>>, 0, <<Node("Assign", "", <<>>, 0, <<Node("Name", "y", <<>>, 0, <<Leaf("Store")>>), Node("BinOp", "", <<>>, 0, <<Leaf("Constant"), Leaf("Div"), Leaf("Constant")>>)>>), Node("ExceptHandler", "", <<>>, 0, <<Node("Name", "ValueError", <<>>, 0, <<Leaf("Load")>>), Node("Assign", "", <<>>, 0, <<Node("Name", "y", <<>>, 0, <<Leaf("Store")>>), Leaf("Constant")>>)>>)>>)>>],
     (* 'def h():\n    try:\n        return input()\n    except:\n        pass\n' *)
     [err |-> "none", lineno |-> 0, offset |-> 0,
      body |-> <<Node("FunctionDef", "h", <<>>, 1, <<Leaf("arguments"), Node("Try", "", <<>>, 0, <<Node("Return", "", <<>>, 0, <<Node("Call", "", <<>>, 0, <<Node("Name", "input", <<>>, 0, <<Leaf("Load")>>)>>)>>), Node("ExceptHandler", "", <<>>, 0, <<Leaf("Pass")>>)>>)>>)>>],
     (* 'q = 1 // 2 + 3 / 0\n' *)
     [err |-> "none", lineno |-> 0, offset |-> 0,
      body |-> <<Node("Assign", "", <<>>, 0, <<Node("Name", "q", <<>>, 0, <<Leaf("Store")>>), Node("BinOp", "", <<>>, 0, <<Node("BinOp", "", <<>>, 0, <<Leaf("Constant"), Leaf("FloorDiv"), Leaf("Constant")>>), Leaf("Add"), Node("BinOp", "", <<>>, 0, <<Leaf("Constant"), Leaf("Div"), Leaf("Constant")>>)>>)>>)>>],
     (* 'r = x / 0 # z\n' *)
     [err |-> "none", lineno |-> 0, offset |-> 0,
      body |-> <<Node("Assign", "", <<>>, 0, <<Node("Name", "r", <<>>, 0, <<Leaf("Store")>>), Node("BinOp", "", <<>>, 0, <<Node("Name", "x", <<>>, 0, <<Leaf("Load")>>), Leaf("Div"), Leaf("Constant")>>)>>)>>],
     (* 'p = (1/x+0)\n' *)
     [err |-> "none", lineno |-> 0, offset |-> 0,
      body |-> <<Node("Assign", "", <<>>, 0, <<Node("Name", "p", <<>>, 0, <<Leaf("Store")>>), Node("BinOp", "", <<>>, 0, <<Node("BinOp", "", <<>>, 0, <<Leaf("Constant"), Leaf("Div"), Node("Name", "x", <<>>, 0, <<Leaf("Load")>>)>>), Leaf("Add"), Leaf("Constant")>>)>>)>>],
     (* 'import os\n' *)
     [err |-> "none", lineno |-> 0, offset |-> 0,
      body |-> <<Node("Import", "", <<>>, 0, <<Leaf("alias")>>)>>],
     (* 'try:\n    y = 1 / 0\nexcept* E:\n    pass\n' *)
     [err |-> "none", lineno |-> 0, offset |-> 0,
      body |-> <<Node("TryStar", "", <<>>, 0, <<Node("Assign", "", <<>>, 0, <<Node("Name", "y", <<>>, 0, <<Leaf("Store")>>), Node("BinOp", "", <<>>, 0, <<Leaf("Constant"), Leaf("Div"), Leaf("Constant")>>)>>), Node("ExceptHandler", "", <<>>, 0, <<Node("Name", "E", <<>>, 0, <<Leaf("Load")>>), Leaf("Pass")>>)>>)>>],
     (* 'print x\n' *)
     [err |-> "SyntaxError", lineno |-> 1, offset |-> 1, body |-> <<>>],
     (* 'z = 1+1+1+1+1+1+1\n' *)
     [err |-> "none", lineno |-> 0, offset |-> 0,
      body |-> <<Node("Assign", "", <<>>, 0, <<Node("Name", "z", <<>>, 0, <<Leaf("Store")>>), Node("BinOp", "", <<>>, 0, <<Node("BinOp", "", <<>>, 0, <<Node("BinOp", "", <<>>, 0, <<Node("BinOp", "", <<>>, 0, <<Node("BinOp", "", <<>>, 0, <<Node("BinOp", "", <<>>, 0, <<Leaf("Constant"), Leaf("Add"), Leaf("Constant")>>), Leaf("Add"), Leaf("Constant")>>), Leaf("Add"), Leaf("Constant")>>), Leaf("Add"), Leaf("Constant")>>), Leaf("Add"), Leaf("Constant")>>), Leaf("Add"), Leaf("Constant")>>)>>)>>] >>

NChunks == Len(ChunkSrc)

(***************************************************************************)
(* Strings: str.split('\n'), str.strip(), the in operator.                 *)
(***************************************************************************)
Whitespace == {" ", "\t", "\n", "\r"}

WordChars ==
  {"a","b","c","d","e","f","g","h","i","j","k","l","m","n","o","p","q","r","s","t","u","v","w","x","y","z",
   "A","B","C","D","E","F","G","H","I","J","K","L","M","N","O","P","Q","R","S","T","U","V","W","X","Y","Z",
   "0","1","2","3","4","5","6","7","8","9","_"}

UpperToLower ==
  [A |-> "a", B |-> "b", C |-> "c", D |-> "d", E |-> "e", F |-> "f", G |-> "g", H |-> "h", I |-> "i",
   J |-> "j", K |-> "k", L |-> "l", M |-> "m", N |-> "n", O |-> "o", P |-> "p", Q |-> "q", R |-> "r",
   S |-> "s", T |-> "t", U |-> "u", V |-> "v", W |-> "w", X |-> "x", Y |-> "y", Z |-> "z"]

Lower(c) == IF c \in DOMAIN UpperToLower THEN UpperToLower[c] ELSE c

\* s.split('\n'): the pieces between the newlines; n + 1 pieces for n newlines.
split(s) ==
  LET nl == {i \in 1..Len(s) : s[i] = "\n"}
      n  == Cardinality(nl) + 1
      \* the position of the k-th newline; 0 and Len(s) + 1 bound the text
      At(k) == IF k = 0 THEN 0
               ELSE IF k = n THEN Len(s) + 1
               ELSE CHOOSE p \in nl : Cardinality({q \in nl : q < p}) = k - 1
  IN  [k \in 1..n |-> SubSeq(s, At(k - 1) + 1, At(k) - 1)]

\* s.strip(): s without its leading and trailing whitespace.
strip(s) ==
  LET keep == {i \in 1..Len(s) : s[i] \notin Whitespace}
  IN  IF keep = {} THEN <<>>
      ELSE LET lo == CHOOSE i \in keep : \A j \in keep : i <= j
               hi == CHOOSE i \in keep : \A j \in keep : j <= i
           IN  SubSeq(s, lo, hi)

\* sub in s
Contains(s, sub) ==
  \E p \in 1..(Len(s) - Len(sub) + 1) : SubSeq(s, p, p + Len(sub) - 1) = sub

(***************************************************************************)
(* Regular expressions (module re).  A pattern is a tree; Ends(r, s, P, ic)*)
(* is the set of positions at which a match of r can end when it starts at *)
(* a position of P (a position is the index of the next character, 1 to    *)
(* Len(s) + 1).  ic is re.IGNORECASE.                                      *)
(***************************************************************************)
Lit(chars)  == [op |-> "lit",  s |-> chars, rs |-> <<>>]
Cls(name)   == [op |-> "cls",  s |-> <<name>>, rs |-> <<>>]
Star(r)     == [op |-> "star", s |-> <<>>, rs |-> <<r>>]
Plus(r)     == [op |-> "plus", s |-> <<>>, rs |-> <<r>>]
Cat(rs)     == [op |-> "cat",  s |-> <<>>, rs |-> rs]
Alt(rs)     == [op |-> "alt",  s |-> <<>>, rs |-> rs]
WordB       == [op |-> "wb",   s |-> <<>>, rs |-> <<>>]
Bol         == [op |-> "bol",  s |-> <<>>, rs |-> <<>>]

\* \s, \w, ., [^(], [^)], [^\.]
InClass(c, name) ==
  CASE name = "s"       -> c \in Whitespace
    [] name = "w"       -> c \in WordChars
    [] name = "any"     -> c # "\n"
    [] name = "notopen" -> c # "("
    [] name = "notclose" -> c # ")"
    [] name = "notdot"  -> c # "."

IsWordAt(s, p) == p >= 1 /\ p <= Len(s) /\ s[p] \in WordChars

SameChar(a, b, ic) == a = b \/ (ic /\ Lower(a) = Lower(b))

RECURSIVE Ends(_, _, _, _)
RECURSIVE EndsCat(_, _, _, _, _)
RECURSIVE Closure(_, _, _, _)

Ends(r, s, P, ic) ==
  CASE r.op = "lit" ->
         {p + Len(r.s) : p \in {q \in P : /\ q + Len(r.s) - 1 <= Len(s)
                                          /\ \A j \in 1..Len(r.s) : SameChar(s[q + j - 1], r.s[j], ic)}}
    [] r.op = "cls" ->
         {p + 1 : p \in {q \in P : q <= Len(s) /\ InClass(s[q], r.s[1])}}
    [] r.op = "wb"   -> {p \in P : IsWordAt(s, p - 1) # IsWordAt(s, p)}
    [] r.op = "bol"  -> P \cap {1}
    [] r.op = "cat"  -> EndsCat(r.rs, 1, s, P, ic)
    [] r.op = "alt"  -> UNION {Ends(r.rs[i], s, P, ic) : i \in 1..Len(r.rs)}
    [] r.op = "star" -> Closure(r.rs[1], s, P, ic)
    [] r.op = "plus" -> Closure(r.rs[1], s, Ends(r.rs[1], s, P, ic), ic)

EndsCat(rs, k, s, P, ic) ==
  IF k > Len(rs) \/ P = {} THEN P
  ELSE EndsCat(rs, k + 1, s, Ends(rs[k], s, P, ic), ic)

Closure(r, s, P, ic) ==
  LET Q == P \cup Ends(r, s, P, ic)
  IN  IF Q = P THEN P ELSE Closure(r, s, Q, ic)

\* re.search(pattern, s[, re.IGNORECASE]) is not None
re_search(r, s, ic) == Ends(r, s, 1..(Len(s) + 1), ic) # {}

\* re.match(pattern, s) is not None
re_match(r, s) == Ends(r, s, {1}, FALSE) # {}

(***************************************************************************)
(* Output.  A printed line is a record naming the print statement (kind)   *)
(* and the values formatted into it: n and m are numbers, text and arg are *)
(* character sequences, names are identifiers.                             *)
(***************************************************************************)
Msg(kind, n, m, text, arg, names) ==
  [kind |-> kind, n |-> n, m |-> m, text |-> text, arg |-> arg, names |-> names]

Line(kind) == Msg(kind, 0, 0, <<>>, <<>>, <<>>)

\* The header a check prints first, "\n<k>. ...:".
Header(k) == Msg("header", k, 0, <<>>, <<>>, <<>>)

\* What a call returns to its caller: the lines it printed, and the
\* exception it let propagate ("none" when it returned normally).
Returned(out) == [out |-> out, exc |-> "none"]
Raised(out, exc) == [out |-> out, exc |-> exc]

(***************************************************************************)
(* 1. analyze_line_count                                                   *)
(***************************************************************************)
analyze_line_count(c) ==
  LET lines == split(c)
  IN  Cardinality({i \in 1..Len(lines) : strip(lines[i]) # <<>>})

(***************************************************************************)
(* 3. analyze_division_by_zero                                             *)
(***************************************************************************)
\* r'/(\s*0\b|\b0\.0)'
ReDivDirect ==
  Cat(<<Lit(<<"/">>),
        Alt(<<Cat(<<Star(Cls("s")), Lit(<<"0">>), WordB>>),
              Cat(<<WordB, Lit(<<"0", ".", "0">>)>>)>>)>>)

\* r'/.*\b0\b.*[^\.]'
ReDivIndirect ==
  Cat(<<Lit(<<"/">>), Star(Cls("any")), WordB, Lit(<<"0">>), WordB,
        Star(Cls("any")), Cls("notdot")>>)

\* A faulty variant of DivLine: two independent ifs instead of if/elif.
DivLineBothIfs(i, line) ==
  IF Contains(line, <<"/">>) /\ ~Contains(line, <<"/", "/">>)
  THEN (IF re_search(ReDivDirect, line, FALSE)
        THEN <<Msg("div_direct", i, 0, strip(line), <<>>, <<>>)>> ELSE <<>>)
       \o
       (IF re_search(ReDivIndirect, line, FALSE)
        THEN <<Msg("div_indirect", i, 0, strip(line), <<>>, <<>>)>> ELSE <<>>)
  ELSE <<>>

\* The body of the loop, lines 85-92.
DivLine(i, line) ==
  IF Contains(line, <<"/">>) /\ ~Contains(line, <<"/", "/">>)
  THEN IF re_search(ReDivDirect, line, FALSE)
       THEN <<Msg("div_direct", i, 0, strip(line), <<>>, <<>>)>>
       ELSE IF re_search(ReDivIndirect, line, FALSE)
            THEN <<Msg("div_indirect", i, 0, strip(line), <<>>, <<>>)>>
            ELSE <<>>
  ELSE <<>>

\* for i, line in enumerate(lines, 1): what the loop prints from line i on.
RECURSIVE DivLoop(_, _)
DivLoop(lines, i) ==
  IF i > Len(lines) THEN <<>>
  ELSE DivLine(i, lines[i]) \o DivLoop(lines, i + 1)

analyze_division_by_zero(c) ==
  LET found == DivLoop(split(c), 1)
      found_issues == found # <<>>
  IN  Returned(<<Header(3)>> \o found
               \o (IF ~found_issues THEN <<Line("div_none")>> ELSE <<>>))

(***************************************************************************)
(* 4. analyze_variable_shadowing                                           *)
(***************************************************************************)
builtins ==
  { <<"l","i","s","t">>, <<"d","i","c","t">>, <<"s","e","t">>, <<"s","t","r">>,
    <<"i","n","t">>, <<"f","l","o","a","t">>, <<"b","o","o","l">>,
    <<"i","n","p","u","t">>, <<"p","r","i","n","t">>, <<"s","u","m">>,
    <<"m","i","n">>, <<"m","a","x">>, <<"l","e","n">>, <<"t","y","p","e">>,
    <<"i","d">>, <<"r","a","n","g","e">>, <<"e","n","u","m","e","r","a","t","e">>,
    <<"z","i","p">>, <<"m","a","p">>, <<"f","i","l","t","e","r">> }

\* r'^\s*(\w+)\s*='
ReAssign == Cat(<<Bol, Star(Cls("s")), Plus(Cls("w")), Star(Cls("s")), Lit(<<"=">>)>>)

\* match.group(1) of ReAssign: the classes \s and \w are disjoint, so the
\* group is the whole run of word characters after the leading whitespace.
Group1(line) ==
  LET from == CHOOSE p \in 1..(Len(line) + 1) :
                /\ \A j \in 1..(p - 1) : line[j] \in Whitespace
                /\ (p > Len(line) \/ line[p] \notin Whitespace)
      to   == CHOOSE p \in from..(Len(line) + 1) :
                /\ \A j \in from..(p - 1) : line[j] \in WordChars
                /\ (p > Len(line) \/ line[p] \notin WordChars)
  IN  SubSeq(line, from, to - 1)

ShadowLine(i, line) ==
  IF re_match(ReAssign, line) /\ Group1(line) \in builtins
  THEN <<Msg("shadow", i, 0, strip(line), Group1(line), <<>>)>>
  ELSE <<>>

\* for i, line in enumerate(lines, 1): what the loop prints from line i on.
RECURSIVE ShadowLoop(_, _)
ShadowLoop(lines, i) ==
  IF i > Len(lines) THEN <<>>
  ELSE ShadowLine(i, lines[i]) \o ShadowLoop(lines, i + 1)

analyze_variable_shadowing(c) ==
  LET found == ShadowLoop(split(c), 1)
      found_issues == found # <<>>
  IN  Returned(<<Header(4)>> \o found
               \o (IF ~found_issues THEN <<Line("shadow_none")>> ELSE <<>>))

(***************************************************************************)
(* 7. analyze_input_validation                                             *)
(***************************************************************************)
\* validation_patterns, searched with re.IGNORECASE
validation_patterns ==
  << \* r'\.isdigit\(\)'
     Lit(<<".", "i", "s", "d", "i", "g", "i", "t", "(", ")">>),
     \* r'try\s*:'
     Cat(<<Lit(<<"t", "r", "y">>), Star(Cls("s")), Lit(<<":">>)>>),
     \* r'except\s+ValueError'
     Cat(<<Lit(<<"e", "x", "c", "e", "p", "t">>), Plus(Cls("s")),
           Lit(<<"V", "a", "l", "u", "e", "E", "r", "r", "o", "r">>)>>),
     \* r'if\s+.*\.isdigit\(\)'
     Cat(<<Lit(<<"i", "f">>), Plus(Cls("s")), Star(Cls("any")),
           Lit(<<".", "i", "s", "d", "i", "g", "i", "t", "(", ")">>)>>),
     \* r'isinstance\(.*,\s*(int|float|str)\)'
     Cat(<<Lit(<<"i", "s", "i", "n", "s", "t", "a", "n", "c", "e", "(">>), Star(Cls("any")),
           Lit(<<",">>), Star(Cls("s")),
           Alt(<<Lit(<<"i", "n", "t">>), Lit(<<"f", "l", "o", "a", "t">>), Lit(<<"s", "t", "r">>)>>),
           Lit(<<")">>)>>) >>

HasInputCall(line) == Contains(line, <<"i", "n", "p", "u", "t", "(">>)

MatchesValidation(line) ==
  \E k \in 1..Len(validation_patterns) : re_search(validation_patterns[k], line, TRUE)

InputLine(i, line) ==
  IF HasInputCall(line) THEN <<Msg("input_found", i, 0, strip(line), <<>>, <<>>)>> ELSE <<>>

\* A faulty variant of InputScan: a validation pattern counts only on a line that reads input.
RECURSIVE InputScanSameLine(_, _, _)
InputScanSameLine(lines, i, flags) ==
  IF i > Len(lines) THEN flags
  ELSE InputScanSameLine(lines, i + 1,
         [has_input      |-> flags.has_input \/ HasInputCall(lines[i]),
          has_validation |-> flags.has_validation
                               \/ (HasInputCall(lines[i]) /\ MatchesValidation(lines[i]))])

\* The flags has_input and has_validation after the loop has read the lines
\* from i on (lines 211-227).
RECURSIVE InputScan(_, _, _)
InputScan(lines, i, flags) ==
  IF i > Len(lines) THEN flags
  ELSE InputScan(lines, i + 1,
         [has_input      |-> flags.has_input \/ HasInputCall(lines[i]),
          has_validation |-> flags.has_validation \/ MatchesValidation(lines[i])])

\* The verdict, lines 229-232.
InputVerdict(flags) ==
  IF flags.has_input /\ ~flags.has_validation THEN <<Line("input_unvalidated")>>
  ELSE IF flags.has_validation THEN <<Line("input_validated")>>
  ELSE <<>>

\* for i, line in enumerate(lines, 1): what the loop prints from line i on.
RECURSIVE InputLoop(_, _)
InputLoop(lines, i) ==
  IF i > Len(lines) THEN <<>>
  ELSE InputLine(i, lines[i]) \o InputLoop(lines, i + 1)

analyze_input_validation(c) ==
  LET lines == split(c)
      flags == InputScan(lines, 1, [has_input |-> FALSE, has_validation |-> FALSE])
  IN  Returned(<<Header(7)>> \o InputLoop(lines, 1) \o InputVerdict(flags))

(***************************************************************************)
(* 8. analyze_potential_bugs                                               *)
(***************************************************************************)
bug_patterns ==
  << \* r'while\s+True\s*:'
     Cat(<<Lit(<<"w", "h", "i", "l", "e">>), Plus(Cls("s")), Lit(<<"T", "r", "u", "e">>),
           Star(Cls("s")), Lit(<<":">>)>>),
     \* r'if\s+=\s+'
     Cat(<<Lit(<<"i", "f">>), Plus(Cls("s")), Lit(<<"=">>), Plus(Cls("s"))>>),
     \* r'==\s+None'
     Cat(<<Lit(<<"=", "=">>), Plus(Cls("s")), Lit(<<"N", "o", "n", "e">>)>>),
     \* r'except\s*:'
     Cat(<<Lit(<<"e", "x", "c", "e", "p", "t">>), Star(Cls("s")), Lit(<<":">>)>>),
     \* r'print\s+[^(]'
     Cat(<<Lit(<<"p", "r", "i", "n", "t">>), Plus(Cls("s")), Cls("notopen")>>),
     \* r'input\s*\([^)]*\)\.'
     Cat(<<Lit(<<"i", "n", "p", "u", "t">>), Star(Cls("s")), Lit(<<"(">>),
           Star(Cls("notclose")), Lit(<<")">>), Lit(<<".">>)>>) >>

RECURSIVE BugLineFrom(_, _, _)
BugLineFrom(i, line, k) ==
  IF k > Len(bug_patterns) THEN <<>>
  ELSE (IF re_search(bug_patterns[k], line, FALSE)
        THEN <<Msg("bug_pattern", i, k, strip(line), <<>>, <<>>)>> ELSE <<>>)
       \o BugLineFrom(i, line, k + 1)

BugLine(i, line) == BugLineFrom(i, line, 1)

\* for i, line in enumerate(lines, 1): what the loop prints from line i on.
RECURSIVE BugLoop(_, _)
BugLoop(lines, i) ==
  IF i > Len(lines) THEN <<>>
  ELSE BugLine(i, lines[i]) \o BugLoop(lines, i + 1)

analyze_potential_bugs(c) ==
  LET found == BugLoop(split(c), 1)
      found_bugs == found # <<>>
  IN  Returned(<<Header(8)>> \o found
               \o (IF ~found_bugs THEN <<Line("bug_none")>> ELSE <<>>))

(***************************************************************************)
(* 10. analyze_import_statements                                           *)
(***************************************************************************)
import_patterns ==
  << \* r'^import\s+(\w+)'
     Cat(<<Bol, Lit(<<"i", "m", "p", "o", "r", "t">>), Plus(Cls("s")), Plus(Cls("w"))>>),
     \* r'^from\s+(\w+)\s+import'
     Cat(<<Bol, Lit(<<"f", "r", "o", "m">>), Plus(Cls("s")), Plus(Cls("w")), Plus(Cls("s")),
           Lit(<<"i", "m", "p", "o", "r", "t">>)>>) >>

RECURSIVE ImportLineFrom(_, _, _)
ImportLineFrom(i, line, k) ==
  IF k > Len(import_patterns) THEN <<>>
  ELSE (IF re_search(import_patterns[k], line, FALSE)
        THEN <<Msg("import", 0, k, strip(line), <<>>, <<>>)>> ELSE <<>>)
       \o ImportLineFrom(i, line, k + 1)

ImportLine(i, line) == ImportLineFrom(i, line, 1)

\* for i, line in enumerate(lines, 1): what the loop prints from line i on.
RECURSIVE ImportLoop(_, _)
ImportLoop(lines, i) ==
  IF i > Len(lines) THEN <<>>
  ELSE ImportLine(i, lines[i]) \o ImportLoop(lines, i + 1)

analyze_import_statements(c) ==
  LET imports_found == ImportLoop(split(c), 1)
  IN  Returned(<<Header(10)>>
               \o (IF imports_found # <<>> THEN imports_found ELSE <<Line("import_none")>>))

(***************************************************************************)
(* ast.parse on the sublanguage of the corpus, ast.walk, and the visitors. *)
(***************************************************************************)
RECURSIVE Depth(_)
Depth(node) ==
  LET ds == {Depth(node.kids[i]) : i \in 1..Len(node.kids)}
  IN  1 + (IF ds = {} THEN 0 ELSE CHOOSE d \in ds : \A e \in ds : e <= d)

\* The node of a chunk that starts `by` lines into the file: lineno moves.
RECURSIVE Shift(_, _)
Shift(node, by) ==
  [node EXCEPT !.lineno = IF node.type = "FunctionDef" THEN @ + by ELSE @,
               !.kids = [i \in 1..Len(node.kids) |-> Shift(node.kids[i], by)]]

NewlinesIn(s) == Cardinality({i \in 1..Len(s) : s[i] = "\n"})

\* The chunk the text starts with at position pos.
ChunkAt(s, pos) ==
  CHOOSE k \in 1..NChunks :
    /\ pos + Len(ChunkSrc[k]) - 1 <= Len(s)
    /\ SubSeq(s, pos, pos + Len(ChunkSrc[k]) - 1) = ChunkSrc[k]

\* The parser proper: the statements of the text from pos on, or the first
\* syntax error.  lineoff is the number of lines before pos.
RECURSIVE ParseFrom(_, _, _, _)
ParseChunk(s, pos, lineoff, body, k) ==
  IF ChunkParse[k].err = "SyntaxError"
  THEN [err |-> "SyntaxError", lineno |-> ChunkParse[k].lineno + lineoff,
        offset |-> ChunkParse[k].offset, body |-> <<>>]
  ELSE ParseFrom(s, pos + Len(ChunkSrc[k]), lineoff + NewlinesIn(ChunkSrc[k]),
                 body \o [i \in 1..Len(ChunkParse[k].body) |-> Shift(ChunkParse[k].body[i], lineoff)])

ParseFrom(s, pos, lineoff, body) ==
  IF pos > Len(s) THEN [err |-> "none", lineno |-> 0, offset |-> 0, body |-> body]
  ELSE ParseChunk(s, pos, lineoff, body, ChunkAt(s, pos))

\* ast.parse(content): the Module, or the exception raised.  The syntax
\* tree is built after the whole text has parsed, so a syntax error wins
\* over a tree too deep to build.
BuildTree(r) ==
  IF r.err # "none"
    THEN [err |-> r.err, lineno |-> r.lineno, offset |-> r.offset, tree |-> Leaf("Module")]
  ELSE IF Depth(Node("Module", "", <<>>, 0, r.body)) > ParserDepthLimit
    THEN [err |-> "RecursionError", lineno |-> 0, offset |-> 0, tree |-> Leaf("Module")]
  ELSE [err |-> "none", lineno |-> 0, offset |-> 0, tree |-> Node("Module", "", <<>>, 0, r.body)]

ast_parse(c) == BuildTree(ParseFrom(c, 1, 0, <<>>))

\* ast.walk(tree): breadth first, a node before its children.
RECURSIVE WalkQueue(_)
WalkQueue(todo) ==
  IF todo = <<>> THEN <<>>
  ELSE <<Head(todo)>> \o WalkQueue(Tail(todo) \o Head(todo).kids)

walk(tree) == WalkQueue(<<tree>>)

(***************************************************************************)
(* 2. analyze_syntax_errors                                                *)
(***************************************************************************)
\* The try statement of lines 63-68, p being what ast.parse(content) does.
SyntaxReport(p) ==
  IF p.err = "none" THEN Returned(<<Header(2), Line("syntax_ok")>>)
  ELSE IF p.err = "SyntaxError"
    THEN Returned(<<Header(2),
                    Msg("syntax_error", p.lineno, p.offset, <<>>, <<>>, <<>>),
                    Msg("syntax_position", p.lineno, p.offset, <<>>, <<>>, <<>>)>>)
  ELSE Raised(<<Header(2)>>, p.err)

analyze_syntax_errors(c) == SyntaxReport(ast_parse(c))

(***************************************************************************)
(* 5. analyze_unused_variables                                             *)
(***************************************************************************)
NoVars == [used |-> {}, defined |-> {}]

RECURSIVE UnionVars(_, _)
UnionVars(rs, i) ==
  IF i > Len(rs) THEN NoVars
  ELSE LET rest == UnionVars(rs, i + 1)
       IN  [used |-> rs[i].used \cup rest.used, defined |-> rs[i].defined \cup rest.defined]

\* node.targets of an Assign: its children but the last, which is node.value.
Targets(node) == SubSeq(node.kids, 1, Len(node.kids) - 1)

\* VariableVisitor.visit(node): what the visit adds to used_vars and defined_vars.
RECURSIVE VariableVisitor(_)
VariableVisitor(node) ==
  LET generic_visit == UnionVars([i \in 1..Len(node.kids) |-> VariableVisitor(node.kids[i])], 1)
  IN  CASE node.type = "Name" ->
             [used |-> {node.name}, defined |-> {}]
        [] node.type = "FunctionDef" ->
             [used    |-> generic_visit.used,
              defined |-> {node.name} \cup {node.args[i] : i \in 1..Len(node.args)}
                            \cup generic_visit.defined]
        [] node.type = "Assign" ->
             [used    |-> generic_visit.used,
              defined |-> {Targets(node)[i].name :
                             i \in {j \in 1..Len(Targets(node)) : Targets(node)[j].type = "Name"}}
                            \cup generic_visit.defined]
        [] OTHER -> generic_visit

\* The identifiers of the corpus, in the order that stands for their hashes.
Identifiers == <<"a", "b", "f", "g", "h", "id", "n", "p", "q", "r", "x", "y", "z">>

\* The string hash seeds of the model: PYTHONHASHSEED is random for each
\* interpreter process, and the order in which a set of strings is iterated
\* depends on it.
HashSeeds == {0, 1}

hash(name, seed) ==
  LET i == CHOOSE j \in 1..Len(Identifiers) : Identifiers[j] = name
  IN  IF seed = 0 THEN i ELSE 0 - i

\* for var in S: the elements of a set of strings in iteration order.
RECURSIVE SetIter(_, _)
SetIter(S, seed) ==
  IF S = {} THEN <<>>
  ELSE LET first == CHOOSE x \in S : \A y \in S : hash(x, seed) <= hash(y, seed)
       IN  <<first>> \o SetIter(S \ {first}, seed)

\* Lines 153-158, unused being the set difference in iteration order.
UnusedLines(unused) ==
  IF unused # <<>>
  THEN [i \in 1..Len(unused) |-> Msg("unused", 0, 0, <<>>, <<>>, <<unused[i]>>)]
  ELSE <<Line("unused_none")>>

\* defined_vars - used_vars after visitor.visit(tree), v being what the visit collected.
Unused(v) == v.defined \ v.used

\* The try statement of lines 128-160, p being what ast.parse(content) does.
UnusedReport(p, seed) ==
  IF p.err # "none" THEN Returned(<<Header(5), Line("unused_failed")>>)
  ELSE Returned(<<Header(5)>> \o UnusedLines(SetIter(Unused(VariableVisitor(p.tree)), seed)))

analyze_unused_variables(c, seed) == UnusedReport(ast_parse(c), seed)

(***************************************************************************)
(* 6. analyze_exception_handling                                           *)
(***************************************************************************)
NoFindings == [division_nodes |-> 0, input_nodes |-> 0, has_try_except |-> FALSE]

RECURSIVE SumFindings(_, _)
SumFindings(rs, i) ==
  IF i > Len(rs) THEN NoFindings
  ELSE LET rest == SumFindings(rs, i + 1)
       IN  [division_nodes |-> rs[i].division_nodes + rest.division_nodes,
            input_nodes    |-> rs[i].input_nodes + rest.input_nodes,
            has_try_except |-> rs[i].has_try_except \/ rest.has_try_except]

\* ExceptionVisitor.visit(node): the lengths of division_nodes and
\* input_nodes and the flag has_try_except that the visit of node leaves.
RECURSIVE ExceptionVisitor(_)
ExceptionVisitor(node) ==
  LET generic_visit ==
        SumFindings([i \in 1..Len(node.kids) |-> ExceptionVisitor(node.kids[i])], 1)
  IN  CASE node.type = "Div" -> [NoFindings EXCEPT !.division_nodes = 1]
        [] node.type = "Call" ->
             IF node.kids[1].type = "Name" /\ node.kids[1].name = "input"
             THEN [generic_visit EXCEPT !.input_nodes = @ + 1] ELSE generic_visit
        [] node.type = "Try" -> [NoFindings EXCEPT !.has_try_except = TRUE]
        [] OTHER -> generic_visit

\* Lines 190-198, visitor being the visitor after visitor.visit(tree).
ExceptionLines(visitor) ==
  (IF visitor.division_nodes > 0 /\ ~visitor.has_try_except
   THEN <<Line("exc_division")>> ELSE <<>>)
  \o (IF visitor.input_nodes > 0 /\ ~visitor.has_try_except
      THEN <<Line("exc_input")>> ELSE <<>>)
  \o (IF ~visitor.has_try_except THEN <<Line("exc_no_try")>> ELSE <<Line("exc_has_try")>>)

\* The try statement of lines 167-200, p being what ast.parse(content) does.
ExceptionReport(p) ==
  IF p.err # "none" THEN Returned(<<Header(6), Line("exc_failed")>>)
  ELSE Returned(<<Header(6)>> \o ExceptionLines(ExceptionVisitor(p.tree)))

analyze_exception_handling(c) == ExceptionReport(ast_parse(c))

(***************************************************************************)
(* 9. analyze_function_definitions                                         *)
(***************************************************************************)
FunctionDefs(tree) == SelectSeq(walk(tree), LAMBDA node : node.type = "FunctionDef")

\* Lines 277-281.
FunctionLines(functions) ==
  IF functions # <<>>
  THEN [i \in 1..Len(functions) |->
          Msg("func", functions[i].lineno, 0, <<>>, <<>>,
              <<functions[i].name>> \o functions[i].args)]
  ELSE <<Line("func_none")>>

\* The try statement of lines 265-283, p being what ast.parse(content) does.
FunctionReport(p) ==
  IF p.err # "none" THEN Returned(<<Header(9), Line("func_failed")>>)
  ELSE Returned(<<Header(9)>> \o FunctionLines(FunctionDefs(p.tree)))

analyze_function_definitions(c) == FunctionReport(ast_parse(c))

(***************************************************************************)
(* 11. perform_ast_analysis                                                *)
(***************************************************************************)
CountType(tree, types) == Len(SelectSeq(walk(tree), LAMBDA node : node.type \in types))

\* The calls the loop of lines 341-344 reports, in walk order.
\* functions, line 340: the names of the functions defined anywhere.
FunctionNames(defs) == {defs[i].name : i \in 1..Len(defs)}

\* The calls the loop of lines 341-344 reports, in walk order.
CallsOf(nodes, functions) ==
  SelectSeq(nodes, LAMBDA node : /\ node.type = "Call"
                                 /\ node.kids[1].type = "Name"
                                 /\ node.kids[1].name \in functions)

RecursiveCalls(tree) == CallsOf(walk(tree), FunctionNames(FunctionDefs(tree)))

RecursionLines(calls) ==
  [i \in 1..Len(calls) |-> Msg("recursive_call", 0, 0, <<>>, <<>>, <<calls[i].kids[1].name>>)]

perform_ast_analysis(tree) ==
  <<Header(11),
    Msg("loop_count", CountType(tree, {"While", "For"}), 0, <<>>, <<>>, <<>>),
    Msg("condition_count", CountType(tree, {"If"}), 0, <<>>, <<>>, <<>>),
    Msg("call_count", CountType(tree, {"Call"}), 0, <<>>, <<>>, <<>>)>>
  \o RecursionLines(RecursiveCalls(tree))

(***************************************************************************)
(* The script.                                                             *)
(***************************************************************************)
\* The analysed files: the concatenations of at most MaxChunks chunks.
RECURSIVE Join(_, _)
Join(ids, i) == IF i > Len(ids) THEN <<>> ELSE ChunkSrc[ids[i]] \o Join(ids, i + 1)

Files == {Join(ids, 1) : ids \in UNION {[1..k -> 1..NChunks] : k \in 0..MaxChunks}}

\* The positions of the script, in order: the start of __main__, the calls
\* of checks 2 to 10 in analyze_file (Steps[k] is the call of check k), the
\* try statement of lines 43-47, the banner, run_external_analyzers.
Steps == <<"start", "c2", "c3", "c4", "c5", "c6", "c7", "c8", "c9", "c10",
           "ast", "banner", "external", "done">>

StepNo(p) == CHOOSE k \in 1..Len(Steps) : Steps[k] = p

After(p) == Steps[StepNo(p) + 1]

\* The call of check k in analyze_file, lines 32-40.
Call(k, c, seed) ==
  CASE k = 2  -> analyze_syntax_errors(c)
    [] k = 3  -> analyze_division_by_zero(c)
    [] k = 4  -> analyze_variable_shadowing(c)
    [] k = 5  -> analyze_unused_variables(c, seed)
    [] k = 6  -> analyze_exception_handling(c)
    [] k = 7  -> analyze_input_validation(c)
    [] k = 8  -> analyze_potential_bugs(c)
    [] k = 9  -> analyze_function_definitions(c)
    [] k = 10 -> analyze_import_statements(c)

\* print through sys.stdout, which is the Logger: Logger.write sends the
\* message to the terminal and to the log file.
Write(msgs) ==
  /\ console' = console \o msgs
  /\ log' = log \o msgs

\* An exception nobody caught: the interpreter prints the traceback on
\* sys.stderr, which is still the terminal, and exits.
Uncaught(msgs) ==
  /\ console' = console \o msgs \o <<Line("traceback")>>
  /\ log' = log \o msgs
  /\ pc' = "crashed"

\* The statement after a call that returned r: the next one, unless the
\* call raised.
Continue(r) ==
  IF r.exc = "none" THEN Write(r.out) /\ pc' = After(pc) ELSE Uncaught(r.out)

Init ==
  /\ content \in Files
  /\ pc = "start"
  /\ console = <<>>
  /\ log = <<>>
  /\ hashseed \in HashSeeds
  /\ run = 1
  /\ firstlog = <<>>

\* __main__ installs the Logger and calls analyze_file, which reads the
\* file and prints the title, the rule and the line count (lines 22-30).
analyze_file_begin ==
  /\ pc = "start"
  /\ Write(<<Line("title"), Line("rule"),
             Msg("line_count", analyze_line_count(content), 0, <<>>, <<>>, <<>>)>>)
  /\ pc' = After(pc)
  /\ UNCHANGED <<content, hashseed, run, firstlog>>

\* A faulty variant of analyze_file_check: the statement rebinds content to what
\* the call left of it.
analyze_file_check_consuming(k) ==
  /\ pc = Steps[k]
  /\ Continue(Call(k, content, hashseed))
  /\ content' = <<>>
  /\ UNCHANGED <<hashseed, run, firstlog>>

\* One of the statements of lines 32-40: the call of check k.
analyze_file_check(k) ==
  /\ pc = Steps[k]
  /\ Continue(Call(k, content, hashseed))
  /\ UNCHANGED <<content, hashseed, run, firstlog>>

\* A faulty variant of AstReport: perform_ast_analysis is handed a tree that
\* was parsed outside the try statement, by a parser with error recovery.
AstReportRecovering(p) ==
  IF p.err = "RecursionError" THEN Raised(<<>>, p.err)
  ELSE Returned(perform_ast_analysis(p.tree))

\* The try statement of lines 43-47.
AstReport(p) ==
  IF p.err = "none" THEN Returned(perform_ast_analysis(p.tree))
  ELSE IF p.err = "SyntaxError"
    THEN Returned(<<Msg("ast_syntax_error", p.lineno, p.offset, <<>>, <<>>, <<>>)>>)
  ELSE Raised(<<>>, p.err)

analyze_file_ast ==
  /\ pc = "ast"
  /\ Continue(AstReport(ast_parse(content)))
  /\ UNCHANGED <<content, hashseed, run, firstlog>>

\* Lines 49-50.
analyze_file_end ==
  /\ pc = "banner"
  /\ Write(<<Line("rule"), Line("completed")>>)
  /\ pc' = After(pc)
  /\ UNCHANGED <<content, hashseed, run, firstlog>>

\* What pylint, or the shell that cannot find it, may write on its standard
\* error.
PylintStderr == {<<>>, <<Line("sh_pylint_not_found")>>, <<Line("pylint_stderr")>>}

\* subprocess.run(command, shell=True): nothing is captured, so stdout and
\* stderr of the result are None; the command redirects the child's stdout
\* to Pylint_out.txt and the child inherits the terminal as its stderr.
subprocess_run == [stdout |-> <<>>, stderr |-> <<>>]

\* Lines 363-369: what is printed of the result of the run.
ToolReport(result) ==
  (IF result.stdout # <<>>
   THEN SubSeq(result.stdout, 1, IF Len(result.stdout) < 10 THEN Len(result.stdout) ELSE 10)
   ELSE <<>>)
  \o (IF result.stderr # <<>> THEN <<Line("tool_error")>> ELSE <<>>)

\* run_external_analyzers, lines 347-371, for its one tool.
run_external_analyzers ==
  /\ pc = "external"
  /\ \E err \in PylintStderr :
       /\ console' = console \o <<Header(12), Line("running_tool")>> \o err
                       \o ToolReport(subprocess_run)
       /\ log' = log \o <<Header(12), Line("running_tool")>> \o ToolReport(subprocess_run)
  /\ pc' = After(pc)
  /\ UNCHANGED <<content, hashseed, run, firstlog>>

\* The script is run again on the same file: a new interpreter process, a
\* new timestamped log file.
rerun ==
  /\ pc = "done"
  /\ run = 1
  /\ run' = 2
  /\ firstlog' = log
  /\ log' = <<>>
  /\ console' = <<>>
  /\ hashseed' \in HashSeeds
  /\ pc' = "start"
  /\ UNCHANGED content

Next ==
  \/ analyze_file_begin
  \/ \E k \in 2..10 : analyze_file_check(k)
  \/ analyze_file_ast
  \/ analyze_file_end
  \/ run_external_analyzers

Spec == Init /\ [][Next]_vars

NextTwoRuns == Next \/ rerun

SpecTwoRuns == Init /\ [][NextTwoRuns]_vars

(***************************************************************************)
(* Reading the report.                                                     *)
(***************************************************************************)
\* Check k has just returned: the script is at the statement after its call.
Ran(k) == pc = Steps[k + 1]

\* The try statement of lines 43-47 has just been left.
RanAst == pc = "banner"

\* analyze_file has returned normally.
Analyzed == pc \in {"external", "done"}

Has(out, kind) == \E i \in 1..Len(out) : out[i].kind = kind

Count(out, kind) == Cardinality({i \in 1..Len(out) : out[i].kind = kind})

\* The lines that are not a check's findings: they end a check's section.
SectionEnds == {"title", "rule", "line_count", "header", "ast_syntax_error", "completed", "traceback"}

SectionFrom(out, i) ==
  SubSeq(out, i,
         IF \E j \in (i + 1)..Len(out) : out[j].kind \in SectionEnds
         THEN (CHOOSE j \in (i + 1)..Len(out) :
                 /\ out[j].kind \in SectionEnds
                 /\ \A h \in (i + 1)..(j - 1) : out[h].kind \notin SectionEnds) - 1
         ELSE Len(out))

\* The section of check k in a report: its header and the lines up to the
\* next section.
Section(out, k) ==
  IF \E i \in 1..Len(out) : out[i] = Header(k)
  THEN SectionFrom(out, CHOOSE i \in 1..Len(out) : out[i] = Header(k))
  ELSE <<>>

\* The numbers of the headers of checks 2 to 10, in the order printed.
HeaderNumbers(out) ==
  [i \in 1..Len(SelectSeq(out, LAMBDA m : m.kind = "header" /\ m.n \in 2..10)) |->
     SelectSeq(out, LAMBDA m : m.kind = "header" /\ m.n \in 2..10)[i].n]

Parsed == ast_parse(content).err = "none"

Tree == ast_parse(content).tree

NodesOfType(tree, t) == SelectSeq(walk(tree), LAMBDA node : node.type = t)

(***************************************************************************)
(* C1.  During a run that does not crash, the console and the log file     *)
(* hold the same text in the same order, the output and the error text of  *)
(* the external linter included.                                           *)
(* Fails: pylint's standard error reaches the terminal and not the log.    *)
(***************************************************************************)
C1_ConsoleEqualsLog == pc # "crashed" => console = log

(***************************************************************************)
(* C2.  Whatever ast.parse does with the content, analyze_file lets no     *)
(* exception propagate, prints the headers of checks 2 to 10 once each in  *)
(* ascending order, and ends with the completion banner.                   *)
(* Fails: analyze_syntax_errors catches SyntaxError only.                  *)
(***************************************************************************)
C2_NoExceptionPropagates ==
  /\ pc # "crashed"
  /\ Analyzed => HeaderNumbers(log) = <<2, 3, 4, 5, 6, 7, 8, 9, 10>>
  /\ pc = "external" => log[Len(log)] = Line("completed")

(***************************************************************************)
(* C3.  Every variable bound by a simple-name assignment and never read    *)
(* anywhere in the file is reported as possibly unused by check 5.         *)
(* Fails: visit_Name counts the assignment target itself as a use.         *)
(***************************************************************************)
\* The names bound by x = ...: the Name targets of the Assign nodes.
AssignedNames(tree) ==
  UNION { {Targets(a)[i].name : i \in {j \in 1..Len(Targets(a)) : Targets(a)[j].type = "Name"}} :
          a \in {NodesOfType(tree, "Assign")[h] : h \in 1..Len(NodesOfType(tree, "Assign"))} }

\* The names read: the Name nodes whose context is Load.
ReadNames(tree) ==
  {n.name : n \in {m \in {NodesOfType(tree, "Name")[h] : h \in 1..Len(NodesOfType(tree, "Name"))} :
                     m.kids[1].type = "Load"}}

C3_AssignedNeverReadIsReported ==
  (Ran(5) /\ Parsed) =>
    \A x \in AssignedNames(Tree) \ ReadNames(Tree) :
      \E i \in 1..Len(Section(log, 5)) :
        Section(log, 5)[i] = Msg("unused", 0, 0, <<>>, <<>>, <<x>>)

C5_SyntaxErrorReport ==
  (pc = "external" /\ ast_parse(content).err = "SyntaxError") =>
    /\ Section(log, 2) =
         <<Header(2),
           Msg("syntax_error", ast_parse(content).lineno, ast_parse(content).offset, <<>>, <<>>, <<>>),
           Msg("syntax_position", ast_parse(content).lineno, ast_parse(content).offset, <<>>, <<>>, <<>>)>>
    /\ Section(log, 5) = <<Header(5), Line("unused_failed")>>
    /\ Section(log, 6) = <<Header(6), Line("exc_failed")>>
    /\ Section(log, 9) = <<Header(9), Line("func_failed")>>
    /\ \A k \in {3, 4, 7, 8, 10} : Section(log, k) = Call(k, content, hashseed).out
    /\ \A i \in 1..Len(split(content)) :
         HasInputCall(split(content)[i]) =>
           \E j \in 1..Len(Section(log, 7)) :
             Section(log, 7)[j].kind = "input_found" /\ Section(log, 7)[j].n = i
    /\ ~\E i \in 1..Len(log) : log[i] = Header(11)
    /\ Count(log, "ast_syntax_error") = 1
    /\ \E i \in 1..Len(log) :
         /\ log[i].kind = "ast_syntax_error"
         /\ log[i + 1] = Line("rule")
         /\ log[i + 2] = Line("completed")
         /\ Section(log, 10) = SubSeq(log, i - Len(Section(log, 10)), i - 1)

\* A file that does not parse has been analysed, and the text checks had findings.
C5_Witness ==
  /\ pc = "external"
  /\ Has(log, "ast_syntax_error")
  /\ Has(log, "input_found")
  /\ Has(log, "bug_pattern")

(***************************************************************************)
(* C6.  Check 6 prints the division warning exactly when the syntax tree   *)
(* holds a division operator (ast.Div) and no try statement anywhere, and  *)
(* the input warning exactly when the tree holds a call of the bare name   *)
(* input and no try statement anywhere, however deep the divisions, the    *)
(* calls and the try statements are nested.                                *)
(* Fails: the visitor knows ast.Try only; a try statement with except*     *)
(* clauses parses to ast.TryStar, and the file is reported as having no    *)
(* exception handling.                                                     *)
(***************************************************************************)
InputCalls(tree) ==
  SelectSeq(walk(tree), LAMBDA node : /\ node.type = "Call"
                                      /\ node.kids[1].type = "Name"
                                      /\ node.kids[1].name = "input")

\* The try statements of the tree: try ... except and try ... except*.
TryStatements(tree) == SelectSeq(walk(tree), LAMBDA node : node.type \in {"Try", "TryStar"})

C6_ExceptionWarnings ==
  (Ran(6) /\ Parsed) =>
    /\ Has(Section(log, 6), "exc_division")
         <=> (NodesOfType(Tree, "Div") # <<>> /\ TryStatements(Tree) = <<>>)
    /\ Has(Section(log, 6), "exc_input")
         <=> (InputCalls(Tree) # <<>> /\ TryStatements(Tree) = <<>>)

(***************************************************************************)
(* C7.  Check 7 prints the "input without validation" error exactly when   *)
(* some line contains input( and no line of the file matches a validation  *)
(* pattern; it prints the "contains validation" confirmation exactly when  *)
(* some line matches a validation pattern, with or without input, on any   *)
(* line; it prints no verdict when the file has neither; at most one       *)
(* verdict is printed.                                                     *)
(***************************************************************************)
\* Some line of the content contains input( .
ReadsInput(c) == \E i \in 1..Len(split(c)) : HasInputCall(split(c)[i])

\* Some line of the content matches a validation pattern.
Validates(c) == \E i \in 1..Len(split(c)) : MatchesValidation(split(c)[i])

C7_InputVerdict ==
  Ran(7) =>
    /\ Has(Section(log, 7), "input_unvalidated")
         <=> (ReadsInput(content) /\ ~Validates(content))
    /\ Has(Section(log, 7), "input_validated") <=> Validates(content)
    /\ Count(Section(log, 7), "input_unvalidated") + Count(Section(log, 7), "input_validated") <= 1
    /\ (~ReadsInput(content) /\ ~Validates(content))
         => Section(log, 7) = <<Header(7)>>

\* The confirmation was printed for a file that reads input on a line
\* which matches no validation pattern itself.
C7_Witness ==
  /\ Ran(7)
  /\ Has(Section(log, 7), "input_validated")
  /\ \E i \in 1..Len(split(content)) :
       HasInputCall(split(content)[i]) /\ ~MatchesValidation(split(content)[i])

(***************************************************************************)
(* C8.  Check 3 reports every line on which a value is divided by the      *)
(* literal 0 (a / followed by optional whitespace and a standalone 0):     *)
(* each such line yields exactly one finding, the direct one, and the "no  *)
(* obvious risk" message is printed exactly when no line yielded a finding.*)
(***************************************************************************)
\* A / followed by optional whitespace and a 0 that no word character follows.
DividesByLiteralZero(line) ==
  \E p \in 1..Len(line) : \E q \in (p + 1)..Len(line) :
    /\ line[p] = "/"
    /\ \A j \in (p + 1)..(q - 1) : line[j] \in Whitespace
    /\ line[q] = "0"
    /\ (q = Len(line) \/ line[q + 1] \notin WordChars)

\* The findings of check 3 for line i.
DivFindings(out, i) ==
  SelectSeq(out, LAMBDA m : m.kind \in {"div_direct", "div_indirect"} /\ m.n = i)

NoRiskIffNoFinding(out) ==
  Has(out, "div_none") <=> (~Has(out, "div_direct") /\ ~Has(out, "div_indirect"))

\* The claim as it stands: violated by a line that holds // as well.
C8_Original ==
  Ran(3) =>
    /\ \A i \in 1..Len(split(content)) :
         DividesByLiteralZero(split(content)[i]) =>
           /\ Len(DivFindings(Section(log, 3), i)) = 1
           /\ DivFindings(Section(log, 3), i)[1].kind = "div_direct"
    /\ NoRiskIffNoFinding(Section(log, 3))

\* C8 as amended: the same of every line that contains no //.
C8_Amended ==
  Ran(3) =>
    /\ \A i \in 1..Len(split(content)) :
         (DividesByLiteralZero(split(content)[i]) /\ ~Contains(split(content)[i], <<"/", "/">>)) =>
           /\ Len(DivFindings(Section(log, 3), i)) = 1
           /\ DivFindings(Section(log, 3), i)[1].kind = "div_direct"
    /\ \A i \in 1..Len(split(content)) :
         Contains(split(content)[i], <<"/", "/">>) => DivFindings(Section(log, 3), i) = <<>>
    /\ NoRiskIffNoFinding(Section(log, 3))

\* A line that matches the direct and the indirect pattern was reported,
\* in a file that also holds a line with // that divides by 0.
C8_Witness ==
  /\ Ran(3)
  /\ \E i \in 1..Len(split(content)) :
       /\ re_search(ReDivDirect, split(content)[i], FALSE)
       /\ re_search(ReDivIndirect, split(content)[i], FALSE)
       /\ Len(DivFindings(Section(log, 3), i)) = 1
  /\ \E i \in 1..Len(split(content)) :
       /\ DividesByLiteralZero(split(content)[i])
       /\ Contains(split(content)[i], <<"/", "/">>)

(***************************************************************************)
(* C9.  Section 11 prints a "possible recursive call: f()" warning only    *)
(* for a call of f inside the body of the function named f: the warnings   *)
(* that name f are no more than the calls of f inside a definition of f.   *)
(* Fails: every call of a function defined anywhere in the file is warned  *)
(* about, wherever the call stands.                                        *)
(***************************************************************************)
\* The calls of the bare name f among the nodes.
CallsTo(nodes, f) ==
  SelectSeq(nodes, LAMBDA node : /\ node.type = "Call"
                                 /\ node.kids[1].type = "Name"
                                 /\ node.kids[1].name = f)

\* The calls of f inside the body of a function named f.
RECURSIVE SelfCallsIn(_, _, _)
SelfCallsIn(defs, i, f) ==
  IF i > Len(defs) THEN 0
  ELSE (IF defs[i].name = f THEN Len(CallsTo(Tail(walk(defs[i])), f)) ELSE 0)
       + SelfCallsIn(defs, i + 1, f)

WarningsFor(out, f) ==
  Cardinality({i \in 1..Len(out) : out[i] = Msg("recursive_call", 0, 0, <<>>, <<>>, <<f>>)})

C9_OnlySelfCalls ==
  (RanAst /\ Parsed) =>
    \A f \in {Identifiers[i] : i \in 1..Len(Identifiers)} :
      WarningsFor(log, f) <= SelfCallsIn(FunctionDefs(Tree), 1, f)

(***************************************************************************)
(* C10.  Two runs of the script on the same content print the same lines   *)
(* in the same order.                                                      *)
(* Fails: the unused-variable warnings come out in the iteration order of  *)
(* a set of strings, which changes with the hash seed of the process.      *)
(***************************************************************************)
C10_Deterministic == (run = 2 /\ pc = "done") => log = firstlog
====
